---- MODULE Spec2Model ----
(***************************************************************************)
(* factgen (gz/scfs): ingestion of Debian archives into Package records.   *)
(*                                                                         *)
(*   src/factgen/src/parse.rs   Tags, deb_str_to_comparator,               *)
(*                              parse_package, parse_packages              *)
(*   src/factgen/src/main.rs    main: parse_packages, then one DDlog       *)
(*                              transaction inserting every Package        *)
(*                                                                         *)
(* A Rust &str is modelled as a sequence of one-character strings, so the  *)
(* string operations of parse_package (split, rfind, split_at, trim,       *)
(* trim_start_matches, trim_end_matches) are computed character by         *)
(* character. A panic (unwrap on Err/None, panic!, unreachable!) is an     *)
(* outcome of its own: it unwinds through every caller up to main.         *)
(***************************************************************************)
EXTENDS Integers, Sequences, FiniteSets, TLC

\* ------------------------------------------------------------------------
\* Rust string operations used by parse_package
\* ------------------------------------------------------------------------

\* char::is_whitespace, restricted to the characters the inputs use
IsWhitespace(c) == c \in {" ", "\t", "\n"}

\* str::rfind(c): the 0-based byte offset of the last c, -1 for None
RECURSIVE RFindFrom(_, _, _)
RFindFrom(s, c, i) ==
    IF i = 0 THEN -1
    ELSE IF s[i] = c THEN i - 1
    ELSE RFindFrom(s, c, i - 1)

RFind(s, c) == RFindFrom(s, c, Len(s))

\* str::split_at(mid): (s[..mid], s[mid..])
SplitAt(s, mid) == << SubSeq(s, 1, mid), SubSeq(s, mid + 1, Len(s)) >>

\* str::trim_start_matches(c): every leading c removed
RECURSIVE TrimStartMatches(_, _)
TrimStartMatches(s, c) ==
    IF s # << >> /\ Head(s) = c THEN TrimStartMatches(Tail(s), c) ELSE s

\* str::trim_end_matches(c): every trailing c removed
RECURSIVE TrimEndMatches(_, _)
TrimEndMatches(s, c) ==
    IF s # << >> /\ s[Len(s)] = c
    THEN TrimEndMatches(SubSeq(s, 1, Len(s) - 1), c)
    ELSE s

RECURSIVE TrimStart(_)
TrimStart(s) ==
    IF s # << >> /\ IsWhitespace(Head(s)) THEN TrimStart(Tail(s)) ELSE s

RECURSIVE TrimEnd(_)
TrimEnd(s) ==
    IF s # << >> /\ IsWhitespace(s[Len(s)])
    THEN TrimEnd(SubSeq(s, 1, Len(s) - 1))
    ELSE s

\* str::trim(): leading and trailing whitespace removed
Trim(s) == TrimEnd(TrimStart(s))

\* str::split(c).collect(): the pieces between the separators, empty ones kept
RECURSIVE SplitAcc(_, _, _, _)
SplitAcc(s, c, i, cur) ==
    IF i > Len(s) THEN << cur >>
    ELSE IF s[i] = c THEN << cur >> \o SplitAcc(s, c, i + 1, << >>)
    ELSE SplitAcc(s, c, i + 1, Append(cur, s[i]))

Split(s, c) == SplitAcc(s, c, 1, << >>)

\* ------------------------------------------------------------------------
\* Option, Comparator, Dependency
\* ------------------------------------------------------------------------

None == << >>
Some(x) == << x >>

\* The panic of an unmatched comparator token (parse.rs:20)
ComparatorPanic(x) == [ok |-> FALSE, panic |-> "Unknown comparator", text |-> x]

\* A value returned normally
Ok(v) == [ok |-> TRUE, val |-> v]

\* deb_str_to_comparator: a Comparator, or the panic of the last arm
deb_str_to_comparator(s) ==
    CASE s = << "<", "<" >> -> Ok("StrictlyEarlier")
      [] s = << "<", "=" >> -> Ok("EarlierOrEqual")
      [] s = << "=" >>      -> Ok("ExactlyEqual")
      [] s = << ">", "=" >> -> Ok("LaterOrEqual")
      [] s = << ">", ">" >> -> Ok("StrictlyLater")
      [] OTHER              -> ComparatorPanic(s)

Comparators ==
    { "StrictlyEarlier", "EarlierOrEqual", "ExactlyEqual", "LaterOrEqual",
      "StrictlyLater" }

\* The panic of unreachable!() for a constraint without a space (parse.rs:299)
UnreachablePanic(x) == [ok |-> FALSE, panic |-> "unreachable", text |-> x]

\* Dependency::default(): two empty vectors
DefaultDependency == [package |-> << >>, version |-> << >>]

\* The text between the parentheses of a constraint (parse.rs:278-281)
VersionLine(text) == Trim(TrimEndMatches(TrimStartMatches(text, "("), ")"))

\* AlternativeStep whose unconstrained arm pushes the name only
AlternativeStep_dropNone(d, dependency) ==
    LET mid == RFind(dependency, "(") IN
    IF mid = -1
    THEN [ok |-> TRUE,
          d |-> [d EXCEPT !.package = Append(@, Trim(dependency))]]
    ELSE LET parts        == SplitAt(dependency, mid)
             name         == Trim(parts[1])
             version_line == VersionLine(parts[2])
             vmid         == RFind(version_line, " ")
         IN  IF vmid = -1
             THEN UnreachablePanic(version_line)
             ELSE LET vparts == SplitAt(version_line, vmid)
                      cmp    == deb_str_to_comparator(Trim(vparts[1]))
                  IN  IF cmp.ok
                      THEN [ok |-> TRUE,
                            d |-> [package |-> Append(d.package, name),
                                   version |-> Append(d.version,
                                       Some(<< cmp.val, Trim(vparts[2]) >>))]]
                      ELSE cmp

\* One iteration of the loop over the OR-alternatives of a group
\* (parse.rs:273-312): d with the alternative pushed, or the panic.
AlternativeStep(d, dependency) ==
    LET mid == RFind(dependency, "(") IN
    IF mid = -1
    THEN [ok |-> TRUE,
          d |-> [package |-> Append(d.package, Trim(dependency)),
                 version |-> Append(d.version, None)]]
    ELSE LET parts        == SplitAt(dependency, mid)
             name         == Trim(parts[1])
             version_line == VersionLine(parts[2])
             vmid         == RFind(version_line, " ")
         IN  IF vmid = -1
             THEN UnreachablePanic(version_line)
             ELSE LET vparts == SplitAt(version_line, vmid)
                      cmp    == deb_str_to_comparator(Trim(vparts[1]))
                  IN  IF cmp.ok
                      THEN [ok |-> TRUE,
                            d |-> [package |-> Append(d.package, name),
                                   version |-> Append(d.version,
                                       Some(<< cmp.val, Trim(vparts[2]) >>))]]
                      ELSE cmp

\* The loop over the alternatives of one group, from alternative i on
RECURSIVE GroupFrom(_, _, _)
GroupFrom(alts, i, d) ==
    IF i > Len(alts) THEN [ok |-> TRUE, d |-> d]
    ELSE LET r == AlternativeStep(d, alts[i]) IN
         IF r.ok THEN GroupFrom(alts, i + 1, r.d) ELSE r

\* The loop over the groups (parse.rs:270-315), from group i on
RECURSIVE DependsFrom(_, _, _)
DependsFrom(groups, i, acc) ==
    IF i > Len(groups) THEN [ok |-> TRUE, depends |-> acc]
    ELSE LET r == GroupFrom(Split(groups[i], "|"), 1, DefaultDependency) IN
         IF r.ok THEN DependsFrom(groups, i + 1, Append(acc, r.d)) ELSE r

\* The Depends arm of parse_package as a whole: p.depends, or the panic
ParseDepends(dependencies_line) ==
    DependsFrom(Split(dependencies_line, ","), 1, << >>)

\* ------------------------------------------------------------------------
\* Tags: the control fields (parse.rs:29-221)
\* ------------------------------------------------------------------------

\* A variant of enum Tags without a payload
Tag(v) == [tag |-> v]

\* Tags::Unknown(x)
Unknown(x) == [tag |-> "Unknown", x |-> x]

\* The variants of enum Tags other than Unknown, in declaration order
KnownVariants ==
    {
      "Package", "Version", "Source", "Architecture", "Maintainer",
      "OriginalMaintainer", "InstalledSize", "Replaces", "Section",
      "MultiArch", "Homepage", "Description", "Breaks", "Depends",
      "Suggests", "Priority", "BuiltUsing", "Recommends", "Conflicts",
      "Provides", "Enhances", "BuildIds", "PreDepends", "Tag", "Essential",
      "Bugs", "Task", "Important", "Modaliases", "CnfVisiblePkgname",
      "CnfExtraCommands", "CnfIgnoreCommands", "UbuntuOemKernelFlavour",
      "RubyVersions", "LuaVersions", "PythonVersion", "Python3Version",
      "PythonEggName", "XCargoBuiltUsing", "GhcPackage", "GoImportPath",
      "GstreamerElements", "GstreamerEncoders", "GstreamerDecoders",
      "GstreamerVersion", "GstreamerUriSources", "GstreamerUriSinks",
      "OriginalVcsGit", "EfiVendor", "OriginalVcsBrowser",
      "PostgresqlCatversion", "XulAppid", "NppApplications",
      "NppDescription", "NppFile", "NppMimetype" }

KnownTags == { Tag(v) : v \in KnownVariants }

\* Tags::field_name
field_name(t) ==
    CASE t = Tag("Package") -> "Package"
      [] t = Tag("Version") -> "Version"
      [] t = Tag("Source") -> "Source"
      [] t = Tag("Architecture") -> "Architecture"
      [] t = Tag("Maintainer") -> "Maintainer"
      [] t = Tag("OriginalMaintainer") -> "Original-Maintainer"
      [] t = Tag("InstalledSize") -> "Installed-Size"
      [] t = Tag("Replaces") -> "Replaces"
      [] t = Tag("Section") -> "Section"
      [] t = Tag("MultiArch") -> "Multi-Arch"
      [] t = Tag("Homepage") -> "Homepage"
      [] t = Tag("Description") -> "Description"
      [] t = Tag("Breaks") -> "Breaks"
      [] t = Tag("Depends") -> "Depends"
      [] t = Tag("Suggests") -> "Suggests"
      [] t = Tag("Priority") -> "Priority"
      [] t = Tag("BuiltUsing") -> "Built-Using"
      [] t = Tag("Recommends") -> "Recommends"
      [] t = Tag("Conflicts") -> "Conflicts"
      [] t = Tag("Provides") -> "Provides"
      [] t = Tag("Enhances") -> "Enhances"
      [] t = Tag("BuildIds") -> "Build-Ids"
      [] t = Tag("PreDepends") -> "Pre-Depends"
      [] t = Tag("Essential") -> "Essential"
      [] t = Tag("Bugs") -> "Bugs"
      [] t = Tag("Tag") -> "Tag"
      [] t = Tag("UbuntuOemKernelFlavour") -> "Ubuntu-Oem-Kernel-Flavour"
      [] t = Tag("OriginalVcsGit") -> "Original-Vcs-Git"
      [] t = Tag("RubyVersions") -> "Ruby-Versions"
      [] t = Tag("LuaVersions") -> "Lua-Versions"
      [] t = Tag("PythonVersion") -> "Python-Version"
      [] t = Tag("PythonEggName") -> "Python-Egg-Name"
      [] t = Tag("GhcPackage") -> "Ghc-Package"
      [] t = Tag("XCargoBuiltUsing") -> "X-Cargo-Built-Using"
      [] t = Tag("CnfVisiblePkgname") -> "Cnf-Visible-Pkgname"
      [] t = Tag("CnfIgnoreCommands") -> "Cnf-Ignore-Commands"
      [] t = Tag("CnfExtraCommands") -> "Cnf-Extra-Commands"
      [] t = Tag("GoImportPath") -> "Go-Import-Path"
      [] t = Tag("GstreamerElements") -> "Gstreamer-Elements"
      [] t = Tag("GstreamerDecoders") -> "Gstreamer-Decoders"
      [] t = Tag("GstreamerEncoders") -> "Gstreamer-Encoders"
      [] t = Tag("GstreamerVersion") -> "Gstreamer-Version"
      [] t = Tag("GstreamerUriSources") -> "Gstreamer-Uri-Sources"
      [] t = Tag("GstreamerUriSinks") -> "Gstreamer-Uri-Sinks"
      [] t = Tag("Python3Version") -> "Python3-Version"
      [] t = Tag("EfiVendor") -> "Efi-Vendor"
      [] t = Tag("OriginalVcsBrowser") -> "Original-Vcs-Browser"
      [] t = Tag("Modaliases") -> "Modaliases"
      [] t = Tag("PostgresqlCatversion") -> "Postgresql-Catversion"
      [] t = Tag("XulAppid") -> "Xul-Appid"
      [] t = Tag("Task") -> "Task"
      [] t = Tag("Important") -> "Important"
      [] t = Tag("NppApplications") -> "Npp-Applications"
      [] t = Tag("NppDescription") -> "Npp-Description"
      [] t = Tag("NppFile") -> "Npp-File"
      [] t = Tag("NppMimetype") -> "Npp-Mimetype"
      [] t.tag = "Unknown" -> t.x

\* TagsFrom with one arm naming its neighbour's variant
TagsFrom_swapped(name) ==
    CASE name = "Package" -> Tag("Package")
      [] name = "Version" -> Tag("Version")
      [] name = "Source" -> Tag("Source")
      [] name = "Architecture" -> Tag("Architecture")
      [] name = "Maintainer" -> Tag("Maintainer")
      [] name = "Original-Maintainer" -> Tag("OriginalMaintainer")
      [] name = "Installed-Size" -> Tag("InstalledSize")
      [] name = "Replaces" -> Tag("Replaces")
      [] name = "Section" -> Tag("Section")
      [] name = "Multi-Arch" -> Tag("MultiArch")
      [] name = "Homepage" -> Tag("Homepage")
      [] name = "Description" -> Tag("Description")
      [] name = "Breaks" -> Tag("Breaks")
      [] name = "Depends" -> Tag("Depends")
      [] name = "Suggests" -> Tag("Suggests")
      [] name = "Priority" -> Tag("Priority")
      [] name = "Built-Using" -> Tag("BuiltUsing")
      [] name = "Recommends" -> Tag("Recommends")
      [] name = "Conflicts" -> Tag("Conflicts")
      [] name = "Provides" -> Tag("Provides")
      [] name = "Enhances" -> Tag("Enhances")
      [] name = "Build-Ids" -> Tag("BuildIds")
      [] name = "Pre-Depends" -> Tag("PreDepends")
      [] name = "Essential" -> Tag("Essential")
      [] name = "Bugs" -> Tag("Bugs")
      [] name = "Tag" -> Tag("Tag")
      [] name = "Ubuntu-Oem-Kernel-Flavour" -> Tag("UbuntuOemKernelFlavour")
      [] name = "Original-Vcs-Git" -> Tag("OriginalVcsGit")
      [] name = "Ruby-Versions" -> Tag("RubyVersions")
      [] name = "Lua-Versions" -> Tag("LuaVersions")
      [] name = "Python-Version" -> Tag("PythonVersion")
      [] name = "Python-Egg-Name" -> Tag("PythonEggName")
      [] name = "Ghc-Package" -> Tag("GhcPackage")
      [] name = "X-Cargo-Built-Using" -> Tag("XCargoBuiltUsing")
      [] name = "Cnf-Visible-Pkgname" -> Tag("CnfVisiblePkgname")
      [] name = "Cnf-Ignore-Commands" -> Tag("CnfIgnoreCommands")
      [] name = "Cnf-Extra-Commands" -> Tag("CnfExtraCommands")
      [] name = "Go-Import-Path" -> Tag("GoImportPath")
      [] name = "Gstreamer-Elements" -> Tag("GstreamerElements")
      [] name = "Gstreamer-Decoders" -> Tag("GstreamerEncoders")
      [] name = "Gstreamer-Encoders" -> Tag("GstreamerEncoders")
      [] name = "Gstreamer-Version" -> Tag("GstreamerVersion")
      [] name = "Gstreamer-Uri-Sources" -> Tag("GstreamerUriSources")
      [] name = "Gstreamer-Uri-Sinks" -> Tag("GstreamerUriSinks")
      [] name = "Python3-Version" -> Tag("Python3Version")
      [] name = "Efi-Vendor" -> Tag("EfiVendor")
      [] name = "Original-Vcs-Browser" -> Tag("OriginalVcsBrowser")
      [] name = "Modaliases" -> Tag("Modaliases")
      [] name = "Postgresql-Catversion" -> Tag("PostgresqlCatversion")
      [] name = "Xul-Appid" -> Tag("XulAppid")
      [] name = "Task" -> Tag("Task")
      [] name = "Important" -> Tag("Important")
      [] name = "Npp-Applications" -> Tag("NppApplications")
      [] name = "Npp-Description" -> Tag("NppDescription")
      [] name = "Npp-File" -> Tag("NppFile")
      [] name = "Npp-Mimetype" -> Tag("NppMimetype")
      [] OTHER -> Unknown(name)

\* impl From<&str> for Tags: total, Unknown(name) for every other string
\* (the error! of the last arm only logs)
TagsFrom(name) ==
    CASE name = "Package" -> Tag("Package")
      [] name = "Version" -> Tag("Version")
      [] name = "Source" -> Tag("Source")
      [] name = "Architecture" -> Tag("Architecture")
      [] name = "Maintainer" -> Tag("Maintainer")
      [] name = "Original-Maintainer" -> Tag("OriginalMaintainer")
      [] name = "Installed-Size" -> Tag("InstalledSize")
      [] name = "Replaces" -> Tag("Replaces")
      [] name = "Section" -> Tag("Section")
      [] name = "Multi-Arch" -> Tag("MultiArch")
      [] name = "Homepage" -> Tag("Homepage")
      [] name = "Description" -> Tag("Description")
      [] name = "Breaks" -> Tag("Breaks")
      [] name = "Depends" -> Tag("Depends")
      [] name = "Suggests" -> Tag("Suggests")
      [] name = "Priority" -> Tag("Priority")
      [] name = "Built-Using" -> Tag("BuiltUsing")
      [] name = "Recommends" -> Tag("Recommends")
      [] name = "Conflicts" -> Tag("Conflicts")
      [] name = "Provides" -> Tag("Provides")
      [] name = "Enhances" -> Tag("Enhances")
      [] name = "Build-Ids" -> Tag("BuildIds")
      [] name = "Pre-Depends" -> Tag("PreDepends")
      [] name = "Essential" -> Tag("Essential")
      [] name = "Bugs" -> Tag("Bugs")
      [] name = "Tag" -> Tag("Tag")
      [] name = "Ubuntu-Oem-Kernel-Flavour" -> Tag("UbuntuOemKernelFlavour")
      [] name = "Original-Vcs-Git" -> Tag("OriginalVcsGit")
      [] name = "Ruby-Versions" -> Tag("RubyVersions")
      [] name = "Lua-Versions" -> Tag("LuaVersions")
      [] name = "Python-Version" -> Tag("PythonVersion")
      [] name = "Python-Egg-Name" -> Tag("PythonEggName")
      [] name = "Ghc-Package" -> Tag("GhcPackage")
      [] name = "X-Cargo-Built-Using" -> Tag("XCargoBuiltUsing")
      [] name = "Cnf-Visible-Pkgname" -> Tag("CnfVisiblePkgname")
      [] name = "Cnf-Ignore-Commands" -> Tag("CnfIgnoreCommands")
      [] name = "Cnf-Extra-Commands" -> Tag("CnfExtraCommands")
      [] name = "Go-Import-Path" -> Tag("GoImportPath")
      [] name = "Gstreamer-Elements" -> Tag("GstreamerElements")
      [] name = "Gstreamer-Decoders" -> Tag("GstreamerDecoders")
      [] name = "Gstreamer-Encoders" -> Tag("GstreamerEncoders")
      [] name = "Gstreamer-Version" -> Tag("GstreamerVersion")
      [] name = "Gstreamer-Uri-Sources" -> Tag("GstreamerUriSources")
      [] name = "Gstreamer-Uri-Sinks" -> Tag("GstreamerUriSinks")
      [] name = "Python3-Version" -> Tag("Python3Version")
      [] name = "Efi-Vendor" -> Tag("EfiVendor")
      [] name = "Original-Vcs-Browser" -> Tag("OriginalVcsBrowser")
      [] name = "Modaliases" -> Tag("Modaliases")
      [] name = "Postgresql-Catversion" -> Tag("PostgresqlCatversion")
      [] name = "Xul-Appid" -> Tag("XulAppid")
      [] name = "Task" -> Tag("Task")
      [] name = "Important" -> Tag("Important")
      [] name = "Npp-Applications" -> Tag("NppApplications")
      [] name = "Npp-Description" -> Tag("NppDescription")
      [] name = "Npp-File" -> Tag("NppFile")
      [] name = "Npp-Mimetype" -> Tag("NppMimetype")
      [] OTHER -> Unknown(name)


\* ------------------------------------------------------------------------
\* parse_package (parse.rs:223-337)
\* ------------------------------------------------------------------------

\* Package::default(): empty strings, empty vectors, None options
DefaultPackage ==
    [ package |-> "", version |-> "", files |-> << >>,
      source |-> None, architecture |-> None, maintainer |-> None,
      original_maintainer |-> None, depends |-> << >>, replaces |-> None,
      section |-> None, multi_arch |-> None, homepage |-> None,
      description |-> None ]

\* A Control is the stanza: fields, a sequence of <<tag, value>> in file
\* order, and long, the continuation lines of Description if any.

\* Control::tags(): the field names in stanza order
ControlTags(control) == [i \in 1..Len(control.fields) |-> control.fields[i][1]]

\* Control::get(name): the field's value, None when the stanza has no such field
ControlGet(control, name) ==
    LET hits == { i \in 1..Len(control.fields) : control.fields[i][1] = name } IN
    IF hits = { } THEN None
    ELSE Some(control.fields[CHOOSE i \in hits : \A j \in hits : i <= j][2])

Range(f) == { f[i] : i \in DOMAIN f }

\* Option::unwrap_or
UnwrapOr(opt, default) == IF opt = None THEN default ELSE opt[1]

\* The panic of an unwrap() on Err or None
UnwrapPanic(what) == [ok |-> FALSE, panic |-> "unwrap", text |-> what]

\* TagStep whose last arm stores the tag it does not know
TagStep_unknownWrites(p, control, raw) ==
    LET tag == TagsFrom(raw)
        get == ControlGet(control, field_name(tag))
    IN  CASE tag = Tag("Source") -> Ok([p EXCEPT !.source = get])
          [] tag = Tag("Architecture") -> Ok([p EXCEPT !.architecture = get])
          [] tag = Tag("Maintainer") -> Ok([p EXCEPT !.maintainer = get])
          [] tag = Tag("OriginalMaintainer") ->
                Ok([p EXCEPT !.original_maintainer = get])
          [] tag = Tag("Depends") ->
                LET r == ParseDepends(UnwrapOr(get, << >>)) IN
                IF r.ok THEN Ok([p EXCEPT !.depends = r.depends]) ELSE r
          [] tag = Tag("Replaces") -> Ok([p EXCEPT !.replaces = get])
          [] tag = Tag("Section") -> Ok([p EXCEPT !.section = get])
          [] tag = Tag("MultiArch") -> Ok([p EXCEPT !.multi_arch = get])
          [] tag = Tag("Homepage") -> Ok([p EXCEPT !.homepage = get])
          [] tag = Tag("Description") -> Ok([p EXCEPT !.description = control.long])
          [] OTHER -> Ok([p EXCEPT !.description = Some(raw)])

\* One iteration of the loop over control.tags() (parse.rs:242-334):
\* the Package with the tag's field assigned, or the panic of the Depends arm.
TagStep(p, control, raw) ==
    LET tag == TagsFrom(raw)
        get == ControlGet(control, field_name(tag))
    IN  CASE tag = Tag("Source") -> Ok([p EXCEPT !.source = get])
          [] tag = Tag("Architecture") -> Ok([p EXCEPT !.architecture = get])
          [] tag = Tag("Maintainer") -> Ok([p EXCEPT !.maintainer = get])
          [] tag = Tag("OriginalMaintainer") ->
                Ok([p EXCEPT !.original_maintainer = get])
          [] tag = Tag("Depends") ->
                LET r == ParseDepends(UnwrapOr(get, << >>)) IN
                IF r.ok THEN Ok([p EXCEPT !.depends = r.depends]) ELSE r
          [] tag = Tag("Replaces") -> Ok([p EXCEPT !.replaces = get])
          [] tag = Tag("Section") -> Ok([p EXCEPT !.section = get])
          [] tag = Tag("MultiArch") -> Ok([p EXCEPT !.multi_arch = get])
          [] tag = Tag("Homepage") -> Ok([p EXCEPT !.homepage = get])
          [] tag = Tag("Description") -> Ok([p EXCEPT !.description = control.long])
          [] OTHER -> Ok(p)

\* The Package before the loop (parse.rs:237-240): name, version and files
InitialPackage(control, files) ==
    [DefaultPackage EXCEPT
        !.package = UnwrapOr(ControlGet(control, "Package"), ""),
        !.version = UnwrapOr(ControlGet(control, "Version"), ""),
        !.files = files]

\* The loop over control.tags(), from tag i on
RECURSIVE TagsFromIndex(_, _, _)
TagsFromIndex(p, control, i) ==
    IF i > Len(control.fields) THEN Ok(p)
    ELSE LET r == TagStep(p, control, ControlTags(control)[i]) IN
         IF r.ok THEN TagsFromIndex(r.val, control, i + 1) ELSE r

\* Control::extract (debpkg): Err for a stanza without Package or Version
ExtractFails(control) ==
    \/ ControlGet(control, "Package") = None
    \/ ControlGet(control, "Version") = None

\* An archive file: fault names the first step of the extraction that
\* fails ("none" when the container, its control member and its data member
\* are sound), control is the stanza of the control member and files the
\* entry paths of the data member.
\* parse_package: every failing step is an unwrap(), so a panic.
parse_package(archive) ==
    IF archive.fault = "open" THEN UnwrapPanic("File::open")
    ELSE IF archive.fault = "parse" THEN UnwrapPanic("DebPkg::parse")
    ELSE IF archive.fault = "control" THEN UnwrapPanic("DebPkg::control")
    ELSE IF archive.fault = "extract" \/ ExtractFails(archive.control)
         THEN UnwrapPanic("Control::extract")
    ELSE IF archive.fault = "data" THEN UnwrapPanic("DebPkg::data")
    ELSE IF archive.fault = "entry" THEN UnwrapPanic("Entry::path")
    ELSE TagsFromIndex(InitialPackage(archive.control, archive.files),
                       archive.control, 1)

\* ------------------------------------------------------------------------
\* State
\* ------------------------------------------------------------------------

VARIABLES
    \* the Depends arm of parse_package, one alternative at a time
    src,                \* how the field's text was written (its alternatives, separators, spacing)
    dependencies_line,  \* the text of the Depends field (parse.rs:268)
    groups,             \* dependencies_line.split(',') (parse.rs:270)
    gi,                 \* the group the outer loop is at
    alternatives,       \* or_dependency.split("|") (parse.rs:273)
    ai,                 \* the alternative the inner loop is at
    d,                  \* the Dependency being filled (parse.rs:271)
    depends,            \* p.depends
    dpc,                \* "start", "group", "alt", "done", "panicked"
    dpanic,             \* the panic that ended the parse, None otherwise
    \* the Tags conversions
    tstart,             \* "tag" or "name": what the conversions started from
    tag0,               \* the Tags value they started from (NoTag for a name)
    name0,              \* the string they started from ("" for a tag)
    tagv,               \* the current Tags value
    tname,              \* the current string
    tpc,                \* "tag" or "name": which of the two is current
    tn,                 \* conversions applied so far
    \* parse_package, one tag at a time
    control,            \* the stanza of the archive's control member
    files,              \* file_paths (parse.rs:230-235)
    p,                  \* the Package being built (parse.rs:237)
    ti,                 \* the tag the loop of parse.rs:242 is at
    ppc,                \* "start", "tags", "done", "panicked"
    ppanic,             \* the panic that ended parse_package, None otherwise
    \* main and parse_packages
    walk,               \* what WalkDir::new(root) yields, in order
    wi,                 \* the entry the loop of parse.rs:342 is at
    deb_paths,          \* deb_paths (parse.rs:340), as indices into walk
    nworkers,           \* the threads of the rayon pool
    jobs,               \* per path of deb_paths: its state, its worker, how often it ran
    slots,              \* the Vec collect() fills: slot i holds the result for path i
    packages,           \* what parse_packages returns (main.rs:34)
    updates,            \* updates (main.rs:44)
    ui,                 \* the update apply_updates is at
    engine,             \* the DDlog program: running, transaction, inserted values, delta
    mpc,                \* where main is
    mpanic              \* the panic that ended the process, None otherwise

depVars ==
    << src, dependencies_line, groups, gi, alternatives, ai, d, depends, dpc,
       dpanic >>

tagVars == << tstart, tag0, name0, tagv, tname, tpc, tn >>

pkgVars == << control, files, p, ti, ppc, ppanic >>

runVars ==
    << walk, wi, deb_paths, nworkers, jobs, slots, packages, updates, ui,
       engine, mpc, mpanic >>

vars == << depVars, tagVars, pkgVars, runVars >>

notDep == << tagVars, pkgVars, runVars >>
notTag == << depVars, pkgVars, runVars >>
notPkg == << depVars, tagVars, runVars >>
notRun == << depVars, tagVars, pkgVars >>

\* A variable of a part of the program a specification leaves out
Unused == "unused"

DepUnused ==
    /\ src = Unused /\ dependencies_line = Unused /\ groups = Unused
    /\ gi = Unused /\ alternatives = Unused /\ ai = Unused /\ d = Unused
    /\ depends = Unused /\ dpc = Unused /\ dpanic = Unused

TagUnused ==
    /\ tstart = Unused /\ tag0 = Unused /\ name0 = Unused /\ tagv = Unused
    /\ tname = Unused /\ tpc = Unused /\ tn = Unused

PkgUnused ==
    /\ control = Unused /\ files = Unused /\ p = Unused /\ ti = Unused
    /\ ppc = Unused /\ ppanic = Unused

RunUnused ==
    /\ walk = Unused /\ wi = Unused /\ deb_paths = Unused /\ nworkers = Unused
    /\ jobs = Unused /\ slots = Unused /\ packages = Unused /\ updates = Unused
    /\ ui = Unused /\ engine = Unused /\ mpc = Unused /\ mpanic = Unused

\* ------------------------------------------------------------------------
\* The texts of a Depends field
\* ------------------------------------------------------------------------

\* The most alternatives a generated Depends text has
MaxAlts == 3

\* One alternative as written: a bare name ("plain"), a name with
\* "(tok ver)" ("constrained"), or a name with "(tokver)" ("nospace")
Alt(name, form, tok, ver) == [name |-> name, form |-> form, tok |-> tok, ver |-> ver]

Plain(name) == Alt(name, "plain", << >>, << >>)

AltPool ==
    { Plain(<< "b" >>),
      Alt(<< "a" >>, "constrained", << "<", "<" >>, << "1" >>),
      Alt(<< "b" >>, "constrained", << "<", "=" >>, << "2", ".", "0" >>),
      Alt(<< "a" >>, "constrained", << "=" >>, << "1" >>),
      Alt(<< "b" >>, "constrained", << ">", "=" >>, << "2", ".", "0" >>),
      Alt(<< "a" >>, "constrained", << ">", ">" >>, << "1" >>),
      Alt(<< "a" >>, "constrained", << "~", ">" >>, << "1" >>),
      Alt(<< "b" >>, "nospace", << ">", "=" >>, << "2", ".", "0" >>) }

libc6 == << "l", "i", "b", "c", "6" >>
libqt5gui5 == << "l", "i", "b", "q", "t", "5", "g", "u", "i", "5" >>
libqt5gui5_gles == libqt5gui5 \o << "-", "g", "l", "e", "s" >>
foo == << "f", "o", "o" >>
bar == << "b", "a", "r" >>
v2_29 == << "2", ".", "2", "9" >>
v5_5 == << "5", ".", "5" >>
GE == << ">", "=" >>

\* "libc6 (>= 2.29), libqt5gui5 (>= 5.5) | libqt5gui5-gles (>= 5.5)"
\* (the comment of parse.rs:256-258)
ExampleSrc ==
    [ alts |-> << Alt(libc6, "constrained", GE, v2_29),
                  Alt(libqt5gui5, "constrained", GE, v5_5),
                  Alt(libqt5gui5_gles, "constrained", GE, v5_5) >>,
      seps |-> << ",", "|" >>, style |-> "spaced" ]

\* "foo, bar"
FooBarSrc ==
    [ alts |-> << Plain(foo), Plain(bar) >>, seps |-> << "," >>, style |-> "spaced" ]

\* "foo (>=2.29)"
NoSpaceSrc ==
    [ alts |-> << Alt(foo, "nospace", GE, v2_29) >>, seps |-> << >>, style |-> "tight" ]

\* "foo (~> 2.29)"
TildeSrc ==
    [ alts |-> << Alt(foo, "constrained", << "~", ">" >>, v2_29) >>,
      seps |-> << >>, style |-> "tight" ]

\* "" (a Depends field with an empty value)
EmptySrc == [ alts |-> << Plain(<< >>) >>, seps |-> << >>, style |-> "tight" ]

ExampleSrcs == { ExampleSrc, FooBarSrc, NoSpaceSrc, TildeSrc, EmptySrc }

\* The texts of n alternatives of AltPool, with either separator between two
\* of them, written without spaces or with the usual ones
GeneratedSrc(s, n) ==
    \E a \in [1..n -> AltPool], sp \in [1..(n - 1) -> { ",", "|" }],
       st \in (IF n = 1 THEN { "tight" } ELSE { "tight", "spaced" }) :
        s = [alts |-> a, seps |-> sp, style |-> st]

\* The text of one alternative
RenderAlt(a) ==
    CASE a.form = "plain" -> a.name
      [] a.form = "constrained" ->
            a.name \o << " ", "(" >> \o a.tok \o << " " >> \o a.ver \o << ")" >>
      [] a.form = "nospace" ->
            a.name \o << " ", "(" >> \o a.tok \o a.ver \o << ")" >>

\* A separator as written: "," and "|", or ", " and " | "
RenderSep(sep, style) ==
    IF style = "tight" THEN << sep >>
    ELSE IF sep = "," THEN << ",", " " >>
    ELSE << " ", "|", " " >>

\* The text of the field: the alternatives with the separators between them
RECURSIVE RenderFrom(_, _)
RenderFrom(s, i) ==
    IF i > Len(s.alts) THEN << >>
    ELSE (IF i = 1 THEN << >> ELSE RenderSep(s.seps[i - 1], s.style))
         \o RenderAlt(s.alts[i]) \o RenderFrom(s, i + 1)

Render(s) == RenderFrom(s, 1)

\* ------------------------------------------------------------------------
\* The Depends arm, step by step (parse.rs:267-315)
\* ------------------------------------------------------------------------

DepInit ==
    /\ \/ src \in ExampleSrcs
       \/ \E n \in 1..MaxAlts : GeneratedSrc(src, n)
    /\ dependencies_line = Render(src)
    /\ groups = << >>
    /\ gi = 0
    /\ alternatives = << >>
    /\ ai = 0
    /\ d = DefaultDependency
    /\ depends = << >>
    /\ dpc = "start"
    /\ dpanic = None
    /\ TagUnused
    /\ PkgUnused
    /\ RunUnused

\* p.depends = Vec::new(); dependencies_line.split(',').collect()
StartDepends ==
    /\ dpc = "start"
    /\ depends' = << >>
    /\ groups' = Split(dependencies_line, ",")
    /\ gi' = 1
    /\ dpc' = "group"
    /\ UNCHANGED << src, dependencies_line, alternatives, ai, d, dpanic >>
    /\ UNCHANGED notDep

\* let mut d = Default::default(); or_dependency.split("|").collect()
BeginGroup ==
    /\ dpc = "group"
    /\ gi <= Len(groups)
    /\ d' = DefaultDependency
    /\ alternatives' = Split(groups[gi], "|")
    /\ ai' = 1
    /\ dpc' = "alt"
    /\ UNCHANGED << src, dependencies_line, groups, gi, depends, dpanic >>
    /\ UNCHANGED notDep

\* One iteration of the inner loop: the alternative is pushed on d, or the
\* panic unwinds and d is dropped
ParseAlternative ==
    /\ dpc = "alt"
    /\ ai <= Len(alternatives)
    /\ LET r == AlternativeStep(d, alternatives[ai]) IN
       \/ /\ r.ok
          /\ d' = r.d
          /\ ai' = ai + 1
          /\ UNCHANGED << dpc, dpanic >>
       \/ /\ ~r.ok
          /\ d' = DefaultDependency
          /\ dpanic' = Some(r)
          /\ dpc' = "panicked"
          /\ UNCHANGED ai
    /\ UNCHANGED << src, dependencies_line, groups, gi, alternatives, depends >>
    /\ UNCHANGED notDep

\* p.depends.push(d)
PushDependency ==
    /\ dpc = "alt"
    /\ ai > Len(alternatives)
    /\ depends' = Append(depends, d)
    /\ gi' = gi + 1
    /\ dpc' = "group"
    /\ UNCHANGED << src, dependencies_line, groups, alternatives, ai, d, dpanic >>
    /\ UNCHANGED notDep

\* The outer loop ends
FinishDepends ==
    /\ dpc = "group"
    /\ gi > Len(groups)
    /\ dpc' = "done"
    /\ UNCHANGED << src, dependencies_line, groups, gi, alternatives, ai, d,
                    depends, dpanic >>
    /\ UNCHANGED notDep

DepNext ==
    \/ StartDepends
    \/ BeginGroup
    \/ ParseAlternative
    \/ PushDependency
    \/ FinishDepends

SpecDep == DepInit /\ [][DepNext]_vars
\* ------------------------------------------------------------------------
\* Claims about the Depends arm (checked under SpecDep)
\* ------------------------------------------------------------------------

\* dep filled from the first Len(dep.package) texts of alts: entry i of both
\* lists comes from alts[i]
Aligned(dep, alts) ==
    /\ Len(dep.package) = Len(dep.version)
    /\ Len(dep.package) <= Len(alts)
    /\ \A i \in 1..Len(dep.package) :
          LET mid == RFind(alts[i], "(") IN
          IF mid = -1
          THEN /\ dep.package[i] = Trim(alts[i])
               /\ dep.version[i] = None
          ELSE /\ dep.package[i] = Trim(SubSeq(alts[i], 1, mid))
               /\ dep.version[i] # None
               /\ LET ver == dep.version[i][1][2] IN
                  \E k \in (mid + 1)..Len(alts[i]) :
                      SubSeq(alts[i], k + 1, k + Len(ver)) = ver

C4_UnknownComparatorIsErrorValue ==
    dpanic = None \/ dpanic[1].panic # "Unknown comparator"

\* C5 (as claimed): a parenthesized constraint without a space is reported as
\* an error value; the parse never crashes on it.
C5_MalformedConstraintNeverCrashes ==
    dpanic = None \/ dpanic[1].panic # "unreachable"

\* The five comparator literals of the grammar
ComparatorOf(tok) ==
    CASE tok = << "<", "<" >> -> "StrictlyEarlier"
      [] tok = << "<", "=" >> -> "EarlierOrEqual"
      [] tok = << "=" >>      -> "ExactlyEqual"
      [] tok = << ">", "=" >> -> "LaterOrEqual"
      [] tok = << ">", ">" >> -> "StrictlyLater"
      [] OTHER                -> "none"

\* A text of the grammar: names, each alone or with "(comparator SP version)"
InGrammar(s) ==
    \A i \in 1..Len(s.alts) :
        /\ s.alts[i].name # << >>
        /\ \/ s.alts[i].form = "plain"
           \/ /\ s.alts[i].form = "constrained"
              /\ ComparatorOf(s.alts[i].tok) \in Comparators

ExpectedConstraint(a) ==
    IF a.form = "plain" THEN None ELSE Some(<< ComparatorOf(a.tok), a.ver >>)

\* The groups a text of the grammar stands for: a new group after each ","
RECURSIVE ExpectedFrom(_, _, _, _)
ExpectedFrom(s, i, cur, acc) ==
    IF i > Len(s.alts) THEN acc
    ELSE LET grp == [package |-> Append(cur.package, s.alts[i].name),
                     version |-> Append(cur.version, ExpectedConstraint(s.alts[i]))]
         IN  IF i = Len(s.alts) \/ s.seps[i] = ","
             THEN ExpectedFrom(s, i + 1, DefaultDependency, Append(acc, grp))
             ELSE ExpectedFrom(s, i + 1, grp, acc)

Expected(s) == ExpectedFrom(s, 1, DefaultDependency, << >>)

\* C6 (as claimed): every text of the grammar parses, without a panic, to one
\* Dependency per group in source order, with the names and the
\* (comparator, version) pairs of its alternatives in source order.
C6_OrderPreservingParse ==
    InGrammar(src) =>
        /\ dpc # "panicked"
        /\ dpc = "done" => depends = Expected(src)
\* ------------------------------------------------------------------------
\* The Tags conversions, applied in turn
\* ------------------------------------------------------------------------

\* The most conversions applied in a row
MaxConversions == 2

NoTag == Tag("none")

\* The strings field_name returns for the variants without a payload
KnownFieldNames == { field_name(t) : t \in KnownTags }

\* Strings no arm of From matches
UnknownNames ==
    { "", "depends", "Original-maintainer", "OriginalMaintainer", "X-Foo",
      "Unknown", "Package ", "Npp-Mimetypes" }

TagInit ==
    /\ \/ /\ tstart = "tag"
          /\ tag0 \in KnownTags \cup { Unknown(n) : n \in UnknownNames }
          /\ name0 = ""
       \/ /\ tstart = "name"
          /\ tag0 = NoTag
          /\ name0 \in KnownFieldNames \cup UnknownNames
    /\ tagv = tag0
    /\ tname = name0
    /\ tpc = tstart
    /\ tn = 0
    /\ DepUnused
    /\ PkgUnused
    /\ RunUnused

\* tag.field_name()
ApplyFieldName ==
    /\ tpc = "tag"
    /\ tn < MaxConversions
    /\ tname' = field_name(tagv)
    /\ tpc' = "name"
    /\ tn' = tn + 1
    /\ UNCHANGED << tstart, tag0, name0, tagv >>
    /\ UNCHANGED notTag

\* Tags::from(name)
ApplyFrom ==
    /\ tpc = "name"
    /\ tn < MaxConversions
    /\ tagv' = TagsFrom(tname)
    /\ tpc' = "tag"
    /\ tn' = tn + 1
    /\ UNCHANGED << tstart, tag0, name0, tname >>
    /\ UNCHANGED notTag

TagNext ==
    \/ ApplyFieldName
    \/ ApplyFrom

SpecTags == TagInit /\ [][TagNext]_vars

\* C3: Tags::from(t.field_name()) is t for every variant t without a payload;
\* Tags::from(s) is Unknown(s), and its field_name is s, for every s that is
\* no known field name; and Tags::from always returns a Tags value.
C3_TagRoundTrip ==
    /\ (tstart = "tag" /\ tag0 \in KnownTags /\ tpc = "tag") => tagv = tag0
    /\ (tstart = "tag" /\ tag0 \in KnownTags /\ tpc = "name" /\ tn > 0) =>
            tname \in KnownFieldNames
    /\ (tstart = "name" /\ name0 \notin KnownFieldNames /\ tpc = "tag" /\ tn > 0) =>
            tagv = Unknown(name0)
    /\ (tstart = "name" /\ tpc = "name") => tname = name0
    /\ (tpc = "tag" /\ tn > 0) =>
            (tagv \in KnownTags \/ (tagv.tag = "Unknown" /\ tagv.x = tname))

\* C3 witness: GstreamerDecoders went to its field name and came back, and an
\* unrecognized string went to Unknown and came back
C3_Witness ==
    \/ /\ tstart = "tag" /\ tag0 = Tag("GstreamerDecoders")
       /\ tn = 2 /\ tagv = tag0
    \/ /\ tstart = "name" /\ name0 = "X-Foo"
       /\ tn = 2 /\ tagv = Unknown("X-Foo") /\ tname = "X-Foo"
\* ------------------------------------------------------------------------
\* parse_package, one tag of the stanza at a time (parse.rs:237-336)
\* ------------------------------------------------------------------------

\* The most fields a generated stanza has besides Package and Version
MaxExtra == 2

\* "a (>= 1),b|a"
DependsOk ==
    << "a", " ", "(", ">", "=", " ", "1", ")", ",", "b", "|", "a" >>

\* "a (~> 1)"
DependsTilde == << "a", " ", "(", "~", ">", " ", "1", ")" >>

\* The field names the generated stanzas draw from besides Package and
\* Version: every tag parse_package has an arm for, one known tag without an
\* arm and two names that are no variant
ExtraTags ==
    { "Source", "Architecture", "Maintainer", "Original-Maintainer", "Depends",
      "Replaces", "Section", "Multi-Arch", "Homepage", "Description",
      "Priority", "X-Foo", "depends" }

\* The value of a field of a generated stanza other than Depends
FieldValue(t) ==
    CASE t = "Source" -> "src-a"
      [] t = "Architecture" -> "amd64"
      [] t = "Maintainer" -> "Ubuntu Developers"
      [] t = "Original-Maintainer" -> "Debian Maintainers"
      [] t = "Replaces" -> "pkg-old"
      [] t = "Section" -> "utils"
      [] t = "Multi-Arch" -> "foreign"
      [] t = "Homepage" -> "https://example.org"
      [] t = "Description" -> "short text"
      [] t = "Priority" -> "optional"
      [] t = "X-Foo" -> "foo"
      [] t = "depends" -> "lower-case"

FieldNames(fs) == { fs[i][1] : i \in 1..Len(fs) }

\* fs with x put before its element at pos
InsertAt(fs, pos, x) ==
    SubSeq(fs, 1, pos - 1) \o << x >> \o SubSeq(fs, pos, Len(fs))

\* c is a stanza Control::extract accepts: Package and Version anywhere
\* among n other fields with distinct names; a Description may have
\* continuation lines
GeneratedControl(c, n) ==
    \E ts \in [1..n -> ExtraTags] :
        /\ \A i, j \in 1..n : ts[i] = ts[j] => i = j
        /\ \E dv \in (IF "Depends" \in Range(ts)
                      THEN { DependsOk, DependsTilde } ELSE { DependsOk }),
              i \in 1..(n + 1), j \in 1..(n + 2),
              l \in (IF "Description" \in Range(ts)
                     THEN { None, Some("long text") } ELSE { None }) :
              c = [ fields |->
                      InsertAt(InsertAt(
                          [k \in 1..n |->
                              << ts[k], IF ts[k] = "Depends" THEN dv
                                        ELSE FieldValue(ts[k]) >>],
                          i, << "Package", "pkg-a" >>),
                          j, << "Version", "1.0-1" >>),
                    long |-> l ]

PkgInit ==
    /\ \E n \in 0..MaxExtra : GeneratedControl(control, n)
    /\ files \in { << >>, << "./usr/bin/a", "./usr/share/doc/a" >> }
    /\ p = DefaultPackage
    /\ ti = 0
    /\ ppc = "start"
    /\ ppanic = None
    /\ DepUnused
    /\ TagUnused
    /\ RunUnused

\* let mut p = Default::default(); p.package, p.version, p.files
StartPackage ==
    /\ ppc = "start"
    /\ p' = InitialPackage(control, files)
    /\ ti' = 1
    /\ ppc' = "tags"
    /\ UNCHANGED << control, files, ppanic >>
    /\ UNCHANGED notPkg

\* One iteration of the loop over control.tags()
NextTag ==
    /\ ppc = "tags"
    /\ ti <= Len(control.fields)
    /\ LET r == TagStep(p, control, ControlTags(control)[ti]) IN
       \/ /\ r.ok
          /\ p' = r.val
          /\ ti' = ti + 1
          /\ UNCHANGED << ppc, ppanic >>
       \/ /\ ~r.ok
          /\ ppanic' = Some(r)
          /\ ppc' = "panicked"
          /\ UNCHANGED << p, ti >>
    /\ UNCHANGED << control, files >>
    /\ UNCHANGED notPkg

\* The loop is over: p is returned
ReturnPackage ==
    /\ ppc = "tags"
    /\ ti > Len(control.fields)
    /\ ppc' = "done"
    /\ UNCHANGED << control, files, p, ti, ppanic >>
    /\ UNCHANGED notPkg

PkgNext ==
    \/ StartPackage
    \/ NextTag
    \/ ReturnPackage

SpecPkg == PkgInit /\ [][PkgNext]_vars

\* The variants parse_package stores in a field of the Package
StoredVariants ==
    { "Source", "Architecture", "Maintainer", "OriginalMaintainer", "Depends",
      "Replaces", "Section", "MultiArch", "Homepage", "Description" }

\* A tag that is no variant, or a variant without a field of the Package
Harmless(raw) == TagsFrom(raw).tag \notin StoredVariants

\* The stanza without its harmless fields
RECURSIVE WithoutHarmless(_)
WithoutHarmless(fs) ==
    IF fs = << >> THEN << >>
    ELSE IF Harmless(Head(fs)[1]) THEN WithoutHarmless(Tail(fs))
    ELSE << Head(fs) >> \o WithoutHarmless(Tail(fs))

\* C8: an iteration on a tag that is no variant, or has no field of the
\* Package, does not fail and leaves the Package as it was.
C8_Frame ==
    [][(ppc = "tags" /\ ti <= Len(control.fields)
            /\ Harmless(ControlTags(control)[ti]))
        => (p' = p /\ ppc' = "tags" /\ ppanic' = None)]_vars

\* C8: the Package returned is the one built from the stanza with those
\* tags removed.
C8_SameAsRemoved ==
    ppc = "done" =>
        LET stripped == [control EXCEPT !.fields = WithoutHarmless(@)] IN
        TagsFromIndex([DefaultPackage EXCEPT !.package = p.package,
                                             !.version = p.version,
                                             !.files = p.files],
                      stripped, 1) = Ok(p)

\* C8: a control tag that converts to Unknown, or to a variant parse_package
\* has no arm for, leaves the Package under construction unchanged at its loop
\* step, and the Package returned equals the one built from the same stanza
\* with those fields removed.
C8_UnrecognizedTagsHarmless == C8_Frame /\ []C8_SameAsRemoved

\* C8 witness: a Package returned from a stanza holding a tag that is no
\* variant and a tag that is stored
C8_Witness ==
    /\ ppc = "done"
    /\ "X-Foo" \in FieldNames(control.fields)
    /\ "Source" \in FieldNames(control.fields)
    /\ p.source = Some("src-a")
\* ------------------------------------------------------------------------
\* main and parse_packages (main.rs:28-77, parse.rs:339-360)
\* ------------------------------------------------------------------------

\* The most entries the directory walk yields
MaxEntries == 2

\* The most threads the rayon pool has
MaxWorkers == 2

Archive(fault, ctl, fs) == [fault |-> fault, control |-> ctl, files |-> fs]

ControlA ==
    [ fields |-> << << "Package", "pkg-a" >>, << "Version", "1.0-1" >>,
                    << "Depends", DependsOk >> >>,
      long |-> None ]

ControlB ==
    [ fields |-> << << "Package", "pkg-b" >>, << "Version", "2.0" >>,
                    << "Description", "short text" >> >>,
      long |-> Some("long text") ]

\* A stanza without Version
ControlNoVersion == [ fields |-> << << "Package", "pkg-c" >> >>, long |-> None ]

\* A stanza whose Depends has a comparator that is none of the five
ControlTilde ==
    [ fields |-> << << "Package", "pkg-d" >>, << "Version", "1" >>,
                    << "Depends", DependsTilde >> >>,
      long |-> None ]

GoodArchives ==
    { Archive("none", ControlA, << "./usr/bin/a" >>),
      Archive("none", ControlB, << >>) }

\* Archives parse_package cannot turn into a Package: a file that cannot be
\* opened, a corrupt container, no control member, no data member, no
\* Version, an unknown comparator
BadArchives ==
    { Archive("open", ControlA, << >>),
      Archive("parse", ControlA, << >>),
      Archive("control", ControlA, << >>),
      Archive("data", ControlA, << >>),
      Archive("none", ControlNoVersion, << >>),
      Archive("none", ControlTilde, << >>) }

\* What the walk yields for one entry: an error, or the entry with the
\* extension of its path and, for a file, its content
WalkEntries ==
    { [err |-> TRUE] }
    \cup { [err |-> FALSE, ext |-> "deb", archive |-> a] :
             a \in GoodArchives \cup BadArchives }
    \cup { [err |-> FALSE, ext |-> e, archive |-> Archive("parse", ControlA, << >>)] :
             e \in { "", "txt" } }

\* HDDlog before HDDlog::run
EngineDown ==
    [ up |-> FALSE, txn |-> "none", rel |-> << >>, delta |-> None,
      read |-> FALSE, stopped |-> FALSE ]

Init ==
    /\ \E n \in 0..MaxEntries : walk \in [1..n -> WalkEntries]
    /\ wi = 1
    /\ deb_paths = << >>
    /\ nworkers \in 1..MaxWorkers
    /\ jobs = << >>
    /\ slots = << >>
    /\ packages = << >>
    /\ updates = << >>
    /\ ui = 1
    /\ engine = EngineDown
    /\ mpc = "scan"
    /\ mpanic = None
    /\ DepUnused
    /\ TagUnused
    /\ PkgUnused

\* The process ends in a panic raised at `at`
Panicked(at, cause) == [at |-> at, cause |-> cause]

\* path.extension().map_or(false, |ext| ext == "deb")
is_deb_file(entry) == entry.ext = "deb"

\* One iteration of the loop over WalkDir::new(root) (parse.rs:342-351)
ScanEntry ==
    /\ mpc = "scan"
    /\ wi <= Len(walk)
    /\ \/ /\ walk[wi].err
          /\ mpanic' = Some(Panicked("scan", UnwrapPanic("walkdir::Result")))
          /\ mpc' = "panicked"
          /\ UNCHANGED << wi, deb_paths >>
       \/ /\ ~walk[wi].err
          /\ deb_paths' = IF is_deb_file(walk[wi]) THEN Append(deb_paths, wi)
                          ELSE deb_paths
          /\ wi' = wi + 1
          /\ UNCHANGED << mpc, mpanic >>
    /\ UNCHANGED << walk, nworkers, jobs, slots, packages, updates, ui, engine >>
    /\ UNCHANGED notRun

Todo == [st |-> "todo", by |-> 0, runs |-> 0]

\* deb_paths.par_iter()...: one job per path, one empty slot per job
StartParallel ==
    /\ mpc = "scan"
    /\ wi > Len(walk)
    /\ jobs' = [i \in 1..Len(deb_paths) |-> Todo]
    /\ slots' = [i \in 1..Len(deb_paths) |-> None]
    /\ mpc' = "par"
    /\ UNCHANGED << walk, wi, deb_paths, nworkers, packages, updates, ui, engine,
                    mpanic >>
    /\ UNCHANGED notRun

Idle(w) == \A i \in 1..Len(jobs) : ~(jobs[i].st = "running" /\ jobs[i].by = w)

\* A thread of the pool takes a path no thread has taken
Take(w) ==
    /\ mpc = "par"
    /\ Idle(w)
    /\ \E i \in 1..Len(jobs) :
          /\ jobs[i].st = "todo"
          /\ jobs' = [jobs EXCEPT ![i] = [st |-> "running", by |-> w,
                                          runs |-> @.runs + 1]]
    /\ UNCHANGED << walk, wi, deb_paths, nworkers, slots, packages, updates, ui,
                    engine, mpc, mpanic >>
    /\ UNCHANGED notRun

\* collect() with the result r of path i written to the first empty slot
Store_push(sl, i, r) ==
    LET free == { k \in 1..Len(sl) : sl[k] = None } IN
    [sl EXCEPT ![CHOOSE k \in free : \A j \in free : k <= j] = Some(r)]

\* collect() of an indexed parallel iterator: the result of path i is
\* written to slot i
Store(sl, i, r) == [sl EXCEPT ![i] = Some(r)]

\* The thread's closure returns or panics: |path| parse_package(path)
Finish(w) ==
    /\ mpc = "par"
    /\ \E i \in 1..Len(jobs) :
          /\ jobs[i].st = "running"
          /\ jobs[i].by = w
          /\ jobs' = [jobs EXCEPT ![i].st = "done"]
          /\ slots' = Store(slots, i, parse_package(walk[deb_paths[i]].archive))
    /\ UNCHANGED << walk, wi, deb_paths, nworkers, packages, updates, ui, engine,
                    mpc, mpanic >>
    /\ UNCHANGED notRun

PanickedSlots == { i \in 1..Len(slots) : slots[i] # None /\ ~slots[i][1].ok }

\* Every closure returned: Ok(packages.into())
Collect ==
    /\ mpc = "par"
    /\ \A i \in 1..Len(jobs) : jobs[i].st = "done"
    /\ PanickedSlots = { }
    /\ packages' = [i \in 1..Len(slots) |-> slots[i][1].val]
    /\ mpc' = "parsed"
    /\ UNCHANGED << walk, wi, deb_paths, nworkers, jobs, slots, updates, ui,
                    engine, mpanic >>
    /\ UNCHANGED notRun

\* A closure panicked: once no thread is inside a closure the pool resumes
\* the panic in the caller, and it unwinds through parse_packages and main
Unwind ==
    /\ mpc = "par"
    /\ \A i \in 1..Len(jobs) : jobs[i].st # "running"
    /\ \E i \in PanickedSlots :
          mpanic' = Some(Panicked("parse", slots[i][1]))
    /\ mpc' = "panicked"
    /\ UNCHANGED << walk, wi, deb_paths, nworkers, jobs, slots, packages, updates,
                    ui, engine >>
    /\ UNCHANGED notRun

\* HDDlog::run(threads, debug)?
HDDlogRun ==
    /\ mpc = "parsed"
    /\ \/ /\ engine' = [engine EXCEPT !.up = TRUE]
          /\ mpc' = "running"
       \/ /\ mpc' = "err"
          /\ UNCHANGED engine
    /\ UNCHANGED << walk, wi, deb_paths, nworkers, jobs, slots, packages, updates,
                    ui, mpanic >>
    /\ UNCHANGED notRun

\* hddlog.transaction_start()?
TransactionStart ==
    /\ mpc = "running"
    /\ \/ /\ engine' = [engine EXCEPT !.txn = "open"]
          /\ mpc' = "started"
       \/ /\ mpc' = "err"
          /\ UNCHANGED engine
    /\ UNCHANGED << walk, wi, deb_paths, nworkers, jobs, slots, packages, updates,
                    ui, mpanic >>
    /\ UNCHANGED notRun

\* The loop of main.rs:45 starting at the second Package
BuildUpdates_skipsFirst == IF packages = << >> THEN << >> ELSE Tail(packages)

\* for p in packages { updates.push(Update::Insert { relid: Package, v: p }) }
BuildUpdates == packages

\* main.rs:44-50
PushUpdates ==
    /\ mpc = "started"
    /\ updates' = BuildUpdates
    /\ ui' = 1
    /\ mpc' = "applying"
    /\ UNCHANGED << walk, wi, deb_paths, nworkers, jobs, slots, packages, engine,
                    mpanic >>
    /\ UNCHANGED notRun

\* hddlog.apply_updates(&mut updates.into_iter())?: the engine takes the
\* next Insert, or refuses it
ApplyUpdate ==
    /\ mpc = "applying"
    /\ ui <= Len(updates)
    /\ \/ /\ engine' = [engine EXCEPT !.rel = Append(@, updates[ui])]
          /\ ui' = ui + 1
          /\ UNCHANGED mpc
       \/ /\ mpc' = "err"
          /\ UNCHANGED << engine, ui >>
    /\ UNCHANGED << walk, wi, deb_paths, nworkers, jobs, slots, packages, updates,
                    mpanic >>
    /\ UNCHANGED notRun

\* hddlog.transaction_commit_dump_changes()?
Commit ==
    /\ mpc = "applying"
    /\ ui > Len(updates)
    /\ \/ /\ engine' = [engine EXCEPT !.txn = "committed", !.delta = Some(engine.rel)]
          /\ mpc' = "committed"
       \/ /\ mpc' = "err"
          /\ UNCHANGED engine
    /\ UNCHANGED << walk, wi, deb_paths, nworkers, jobs, slots, packages, updates,
                    ui, mpanic >>
    /\ UNCHANGED notRun

\* dump_delta(&delta); delta.get_rel(Relations::Package) (main.rs:54-64)
ReadDelta ==
    /\ mpc = "committed"
    /\ engine' = [engine EXCEPT !.read = TRUE]
    /\ mpc' = "read"
    /\ UNCHANGED << walk, wi, deb_paths, nworkers, jobs, slots, packages, updates,
                    ui, mpanic >>
    /\ UNCHANGED notRun

\* hddlog.dump_table(...); hddlog.stop().unwrap() (main.rs:72-76)
Stop ==
    /\ mpc = "read"
    /\ \/ /\ engine' = [engine EXCEPT !.up = FALSE, !.stopped = TRUE]
          /\ mpc' = "exit"
          /\ UNCHANGED mpanic
       \/ /\ mpanic' = Some(Panicked("stop", UnwrapPanic("HDDlog::stop")))
          /\ mpc' = "panicked"
          /\ UNCHANGED engine
    /\ UNCHANGED << walk, wi, deb_paths, nworkers, jobs, slots, packages, updates,
                    ui >>
    /\ UNCHANGED notRun

Next ==
    \/ ScanEntry
    \/ StartParallel
    \/ \E w \in 1..nworkers : Take(w)
    \/ \E w \in 1..nworkers : Finish(w)
    \/ Collect
    \/ Unwind
    \/ HDDlogRun
    \/ TransactionStart
    \/ PushUpdates
    \/ ApplyUpdate
    \/ Commit
    \/ ReadDelta
    \/ Stop

Spec == Init /\ [][Next]_vars
\* ------------------------------------------------------------------------
\* Claims about main and parse_packages (checked under Spec)
\* ------------------------------------------------------------------------

\* The entries of the walk that are no error and have the extension "deb"
DebEntries == { i \in 1..Len(walk) : ~walk[i].err /\ walk[i].ext = "deb" }

\* The discovered paths whose archive cannot be turned into a Package
FailingPaths ==
    { i \in 1..Len(deb_paths) : walk[deb_paths[i]].archive \in BadArchives }

\* parse_packages has returned to main
Returned ==
    mpc \in { "parsed", "running", "started", "applying", "committed", "read",
              "exit", "err" }

\* The walk is over and the paths have gone to the pool
Started == mpc = "par" \/ Returned

\* C1 (as claimed): a failing archive never aborts the run, and the run
\* reports one Package per archive that did not fail, N - K of N.
C1_SkipAndRecord ==
    /\ ~(mpc = "panicked" /\ mpanic[1].at = "parse")
    /\ Returned => Len(packages) = Len(deb_paths) - Cardinality(FailingPaths)

\* C7 (as claimed): a traversal error for one entry never aborts the run,
\* and once the walk is over every other entry with the extension is in
\* deb_paths.
C7_ScannerSkipsErrors ==
    /\ ~(mpc = "panicked" /\ mpanic[1].at = "scan")
    /\ Started => Range(deb_paths) = DebEntries

\* C9: no value reaches the engine before parse_packages has returned a
\* Package for every discovered path, and then only inside the open
\* transaction.
C9_InsertsInsideTransaction ==
    [][engine.rel' # engine.rel
        => /\ engine.txn = "open" /\ engine'.txn = "open"
           /\ Len(packages) = Len(deb_paths)
           /\ \A i \in 1..Len(jobs) : jobs[i].st = "done"
           /\ Len(engine'.rel) = Len(engine.rel) + 1]_vars

\* C9: the transaction is opened on a running engine and committed once;
\* when it commits, the values inserted are the Packages returned, each once
\* and in order; the delta is read and the engine stopped only after the
\* commit.
C9_Order ==
    /\ engine.txn # "none" => (engine.up \/ engine.stopped)
    /\ engine.rel # << >> => engine.txn # "none"
    /\ engine.txn = "committed" => (engine.rel = packages /\ engine.delta # None)
    /\ engine.delta # None => engine.txn = "committed"
    /\ engine.read => engine.txn = "committed"
    /\ engine.stopped => (engine.txn = "committed" /\ engine.read)
    /\ mpc \in { "scan", "par" } => engine = EngineDown

\* C9: once committed, the transaction stays committed and nothing more is
\* inserted.
C9_CommitIsLast ==
    [][engine.txn = "committed"
        => (engine'.txn = "committed" /\ engine'.rel = engine.rel)]_vars

\* C9: the engine's transaction is opened only after parse_packages has
\* returned; every returned Package is inserted once, in order, inside that
\* transaction; and the commit follows the last insert, after which the
\* relation no longer changes.
C9_EmitterBarrier == []C9_Order /\ C9_InsertsInsideTransaction /\ C9_CommitIsLast

\* C9 witness: the process exits after a commit of two Packages
C9_Witness ==
    /\ mpc = "exit"
    /\ Len(engine.rel) = 2
    /\ engine.stopped

\* C10: each discovered path is taken at most once, by one thread, and once
\* done exactly once; and what parse_packages returns holds, at index i, the
\* Package of the i-th discovered path, whatever the threads and the order
\* in which they finished.
C10_InterleavingIndependence ==
    /\ Started => Len(jobs) = Len(deb_paths)
    /\ \A i \in 1..Len(jobs) :
          /\ jobs[i].runs <= 1
          /\ jobs[i].st # "todo" => (jobs[i].runs = 1 /\ jobs[i].by \in 1..nworkers)
          /\ jobs[i].st = "done" <=> slots[i] # None
    /\ \A w \in 1..nworkers :
          Cardinality({ i \in 1..Len(jobs) :
                          jobs[i].st = "running" /\ jobs[i].by = w }) <= 1
    /\ Returned =>
          /\ Len(packages) = Len(deb_paths)
          /\ \A i \in 1..Len(packages) :
                parse_package(walk[deb_paths[i]].archive) = Ok(packages[i])

\* C10 witness: two different Packages returned, the second path finished by
\* another thread than the first
C10_Witness ==
    /\ mpc = "parsed"
    /\ Len(packages) = 2
    /\ packages[1] # packages[2]
    /\ jobs[1].by # jobs[2].by
====
